---------------------------- MODULE Spec2Model ----------------------------
(***************************************************************************)
(* A model of the bitstamp client: the channel codec and the event payload *)
(* decoder of src/src/types.rs, the REST request builder and response      *)
(* classifier of Bitstamp::call_web_api_raw, and the receive loop of       *)
(* BitstampEventStream::next (src/src/lib.rs).                             *)
(*                                                                         *)
(* Text that the code inspects character by character (channel wire        *)
(* strings) is a sequence of one-character strings; text that the code     *)
(* only concatenates (the canonical message) is a TLA+ string.             *)
(***************************************************************************)
EXTENDS Integers, Sequences, FiniteSets, TLC

VARIABLES
    \* channel codec (types.rs, EventChannel)
    codecIn, codecWire, codecOut, codecPc,
    \* event payload decoder (types.rs, EventData)
    decIn, decOut, decPc,
    \* REST call (lib.rs, Bitstamp::call_web_api_raw)
    restCall, restDraw, restReq, restResp, restResult, restPc,
    \* the transport failure the call has met, read by the properties only
    restFailure,
    \* event stream (lib.rs, BitstampEventStream)
    timeout, inbound, sock, pc, elapsed, result,
    \* the subscribe/unsubscribe calls made and the frames handed to the socket
    subCalls, outbound,
    \* observations of the stream's run, read by the properties only
    lastFrame, silence, absorbed, sawEnd, terminated,
    \* the stream's history: what arrived, what the calls took, where the call
    \* under way began, and the events returned
    arrived, consumed, callStart, events

codecVars == <<codecIn, codecWire, codecOut, codecPc>>
decVars == <<decIn, decOut, decPc>>
restVars == <<restCall, restDraw, restReq, restResp, restResult, restPc, restFailure>>
streamVars == <<timeout, inbound, sock, pc, elapsed, result, subCalls, outbound,
                lastFrame, silence, absorbed, sawEnd, terminated,
                arrived, consumed, callStart, events>>
vars == <<codecVars, decVars, restVars, streamVars>>

None == [tag |-> "None"]

(***************************************************************************)
(* Character-level strings                                                 *)
(***************************************************************************)
UpperChars == <<"A", "B", "C", "D", "E", "F", "G", "H", "I", "J", "K", "L", "M",
                "N", "O", "P", "Q", "R", "S", "T", "U", "V", "W", "X", "Y", "Z">>
LowerChars == <<"a", "b", "c", "d", "e", "f", "g", "h", "i", "j", "k", "l", "m",
                "n", "o", "p", "q", "r", "s", "t", "u", "v", "w", "x", "y", "z">>

\* char::to_lowercase on ASCII
LowerChar(c) ==
    IF \E i \in 1..Len(UpperChars) : UpperChars[i] = c
    THEN LowerChars[CHOOSE i \in 1..Len(UpperChars) : UpperChars[i] = c]
    ELSE c

\* str::to_lowercase
ToLowerCase(s) == [i \in 1..Len(s) |-> LowerChar(s[i])]

\* s.split('_').collect(): always at least one part, empty parts kept
RECURSIVE SplitFrom(_, _, _)
SplitFrom(s, i, cur) ==
    IF i > Len(s) THEN <<cur>>
    ELSE IF s[i] = "_" THEN <<cur>> \o SplitFrom(s, i + 1, <<>>)
    ELSE SplitFrom(s, i + 1, Append(cur, s[i]))

Split(s) == SplitFrom(s, 1, <<>>)

\* parts.join("_")
RECURSIVE Join(_)
Join(parts) ==
    IF parts = <<>> THEN <<>>
    ELSE IF Len(parts) = 1 THEN parts[1]
    ELSE parts[1] \o <<"_">> \o Join(Tail(parts))

(***************************************************************************)
(* Trading pairs and channels                                              *)
(***************************************************************************)
CurrencyPairs ==
    {"Btcusd", "Btceur", "Eurusd", "Xrpusd", "Xrpeur", "Xrpbtc", "Ltcusd", "Ltceur",
     "Ltcbtc", "Ethusd", "Etheur", "Ethbtc", "Bchusd", "Bcheur", "Bchbtc"}

ChannelKinds ==
    {"LiveTrades", "LiveOrders", "OrderBook", "DetailOrderBook", "DiffOrderBook"}

EventChannel == [kind : ChannelKinds, pair : CurrencyPairs]

\* #[derive(Debug)] on CurrencyPairs: the variant's name
PairDebug(p) ==
    CASE p = "Btcusd" -> <<"B", "t", "c", "u", "s", "d">>
      [] p = "Btceur" -> <<"B", "t", "c", "e", "u", "r">>
      [] p = "Eurusd" -> <<"E", "u", "r", "u", "s", "d">>
      [] p = "Xrpusd" -> <<"X", "r", "p", "u", "s", "d">>
      [] p = "Xrpeur" -> <<"X", "r", "p", "e", "u", "r">>
      [] p = "Xrpbtc" -> <<"X", "r", "p", "b", "t", "c">>
      [] p = "Ltcusd" -> <<"L", "t", "c", "u", "s", "d">>
      [] p = "Ltceur" -> <<"L", "t", "c", "e", "u", "r">>
      [] p = "Ltcbtc" -> <<"L", "t", "c", "b", "t", "c">>
      [] p = "Ethusd" -> <<"E", "t", "h", "u", "s", "d">>
      [] p = "Etheur" -> <<"E", "t", "h", "e", "u", "r">>
      [] p = "Ethbtc" -> <<"E", "t", "h", "b", "t", "c">>
      [] p = "Bchusd" -> <<"B", "c", "h", "u", "s", "d">>
      [] p = "Bcheur" -> <<"B", "c", "h", "e", "u", "r">>
      [] p = "Bchbtc" -> <<"B", "c", "h", "b", "t", "c">>

\* the string literals of the match arms of CurrencyPairs::from_str
PairLiteral(p) ==
    CASE p = "Btcusd" -> <<"b", "t", "c", "u", "s", "d">>
      [] p = "Btceur" -> <<"b", "t", "c", "e", "u", "r">>
      [] p = "Eurusd" -> <<"e", "u", "r", "u", "s", "d">>
      [] p = "Xrpusd" -> <<"x", "r", "p", "u", "s", "d">>
      [] p = "Xrpeur" -> <<"x", "r", "p", "e", "u", "r">>
      [] p = "Xrpbtc" -> <<"x", "r", "p", "b", "t", "c">>
      [] p = "Ltcusd" -> <<"l", "t", "c", "u", "s", "d">>
      [] p = "Ltceur" -> <<"l", "t", "c", "e", "u", "r">>
      [] p = "Ltcbtc" -> <<"l", "t", "c", "b", "t", "c">>
      [] p = "Ethusd" -> <<"e", "t", "h", "u", "s", "d">>
      [] p = "Etheur" -> <<"e", "t", "h", "e", "u", "r">>
      [] p = "Ethbtc" -> <<"e", "t", "h", "b", "t", "c">>
      [] p = "Bchusd" -> <<"b", "c", "h", "u", "s", "d">>
      [] p = "Bcheur" -> <<"b", "c", "h", "e", "u", "r">>
      [] p = "Bchbtc" -> <<"b", "c", "h", "b", "t", "c">>

\* from_str comparing the input as it is, without lowercasing it
PairFromStr_CaseSensitive(s) ==
    IF \E p \in CurrencyPairs : PairLiteral(p) = s
    THEN [ok |-> TRUE, pair |-> CHOOSE p \in CurrencyPairs : PairLiteral(p) = s]
    ELSE [ok |-> FALSE, pair |-> "none"]

\* CurrencyPairs::from_str: lowercase the input, match it against the literals
PairFromStr(s) ==
    LET lower == ToLowerCase(s) IN
    IF \E p \in CurrencyPairs : PairLiteral(p) = lower
    THEN [ok |-> TRUE, pair |-> CHOOSE p \in CurrencyPairs : PairLiteral(p) = lower]
    ELSE [ok |-> FALSE, pair |-> "none"]

\* the format strings of impl Serialize for EventChannel, up to the {:?}
SerializePrefix(k) ==
    CASE k = "LiveTrades" -> <<"l", "i", "v", "e", "_", "t", "r", "a", "d", "e", "s", "_">>
      [] k = "LiveOrders" -> <<"l", "i", "v", "e", "_", "o", "r", "d", "e", "r", "s", "_">>
      [] k = "OrderBook" -> <<"o", "r", "d", "e", "r", "_", "b", "o", "o", "k", "_">>
      [] k = "DetailOrderBook" ->
            <<"d", "e", "t", "a", "i", "l", "_", "o", "r", "d", "e", "r", "_", "b", "o", "o", "k", "_">>
      [] k = "DiffOrderBook" ->
            <<"d", "i", "f", "f", "_", "o", "r", "d", "e", "r", "_", "b", "o", "o", "k", "_">>

\* impl Serialize for EventChannel: format!("<kind>_{:?}", pair).to_lowercase()
SerializeChannel(c) == ToLowerCase(SerializePrefix(c.kind) \o PairDebug(c.pair))

\* the string literals of the match arms of visit_str
VisitTag(k) ==
    CASE k = "LiveTrades" -> <<"l", "i", "v", "e", "_", "t", "r", "a", "d", "e", "s">>
      [] k = "LiveOrders" -> <<"l", "i", "v", "e", "_", "o", "r", "d", "e", "r", "s">>
      [] k = "OrderBook" -> <<"o", "r", "d", "e", "r", "_", "b", "o", "o", "k">>
      [] k = "DetailOrderBook" ->
            <<"d", "e", "t", "a", "i", "l", "_", "o", "r", "d", "e", "r", "_", "b", "o", "o", "k">>
      [] k = "DiffOrderBook" ->
            <<"d", "i", "f", "f", "_", "o", "r", "d", "e", "r", "_", "b", "o", "o", "k">>

ChannelOk(k, p) == [ok |-> TRUE, kind |-> k, pair |-> p, err |-> "none"]
ChannelErr(e) == [ok |-> FALSE, kind |-> "none", pair |-> "none", err |-> e]

\* the pair visit_str takes from the parts: the last one, through from_str
VisitPair(parts) == PairFromStr(parts[Len(parts)])

\* the kind tag taken from the first part alone
VisitJoined_FirstToken(parts) == parts[1]

\* the kind tag visit_str matches: the parts but the last, joined again
VisitJoined(parts) == Join(SubSeq(parts, 1, Len(parts) - 1))

\* EventChannelVisitor::visit_str
VisitStr(s) ==
    LET parts == Split(s) IN
    IF parts = <<>> THEN ChannelErr("Failed to parse CurrencyPairs")
    ELSE LET pair == VisitPair(parts)
             joined == VisitJoined(parts)
         IN  IF ~pair.ok THEN ChannelErr("Unknown currency pair")
             ELSE IF \E k \in ChannelKinds : VisitTag(k) = joined
             THEN ChannelOk(CHOOSE k \in ChannelKinds : VisitTag(k) = joined, pair.pair)
             ELSE ChannelErr("Unknown channel")

(***************************************************************************)
(* Event payloads (types.rs: Event, EventEvent, EventData)                 *)
(*                                                                         *)
(* A JSON value in the data position is an object, given by the set of     *)
(* keys present and the set of those whose value has a JSON type the Rust  *)
(* field type rejects, or a value that is no object (shape "scalar").      *)
(***************************************************************************)
TradeFields ==
    {"buy_order_id", "amount_str", "timestamp", "microtimestamp", "id", "amount",
     "sell_order_id", "price_str", "type", "price"}

OrdersFields ==
    {"id", "id_str", "order_type", "datetime", "microtimestamp", "amount",
     "amount_str", "price", "price_str"}

OrderBookFields == {"timestamp", "microtimestamp", "bids", "asks"}

EmptyFields == {}

DataKeys == TradeFields \cup OrdersFields \cup OrderBookFields

VariantFields(v) ==
    CASE v = "Trade" -> TradeFields
      [] v = "Orders" -> OrdersFields
      [] v = "OrderBook" -> OrderBookFields
      [] v = "Empty" -> EmptyFields

\* the variants tried with the order-book snapshot first
VariantOrder_BookFirst == <<"OrderBook", "Trade", "Orders", "Empty">>

\* the order of the variants in the declaration of EventData
VariantOrder == <<"Trade", "Orders", "OrderBook", "Empty">>

DataObject(present, illTyped) ==
    [shape |-> "object", present |-> present, illTyped |-> illTyped]
DataScalar == [shape |-> "scalar", present |-> {}, illTyped |-> {}]
DataAbsent == [shape |-> "absent", present |-> {}, illTyped |-> {}]

\* a derived struct-variant deserializer on a buffered value: every field of
\* the variant present with an acceptable type; other keys are ignored
VariantMatches(v, d) ==
    /\ d.shape = "object"
    /\ VariantFields(v) \subseteq d.present
    /\ VariantFields(v) \cap d.illTyped = {}

DataOk(v) == [ok |-> TRUE, variant |-> v]
DataErr == [ok |-> FALSE, variant |-> "none"]

\* #[serde(untagged)]: the first variant, in declaration order, that matches
DeserializeEventData(d) ==
    IF \E i \in 1..Len(VariantOrder) : VariantMatches(VariantOrder[i], d)
    THEN DataOk(VariantOrder[CHOOSE i \in 1..Len(VariantOrder) :
                    /\ VariantMatches(VariantOrder[i], d)
                    /\ \A j \in 1..(i - 1) : ~VariantMatches(VariantOrder[j], d)])
    ELSE DataErr

\* the serde names of EventEvent
EventNames ==
    {"bts:subscribe", "bts:unsubscribe", "trade", "order_created", "order_changed",
     "order_deleted", "data"}

\* a JSON text: well formed or not, and when well formed the value under
\* each of the keys event, channel and data (absent when the key is missing)
ChannelText(s) == [present |-> TRUE, text |-> s]
ChannelAbsent == [present |-> FALSE, text |-> <<>>]

Doc(event, channel, data) ==
    [json |-> TRUE, event |-> event, channel |-> channel, data |-> data]
Malformed ==
    [json |-> FALSE, event |-> "absent", channel |-> ChannelAbsent, data |-> DataAbsent]

NoChannel == [kind |-> "none", pair |-> "none"]
EventOk(e, c, d) == [ok |-> TRUE, event |-> e, channel |-> c, data |-> d]
EventErr == [ok |-> FALSE, event |-> "none", channel |-> NoChannel, data |-> "none"]

\* serde_json::from_str::<Event>: all three fields are required
DeserializeEvent(doc) ==
    IF ~doc.json THEN EventErr
    ELSE IF doc.event \notin EventNames THEN EventErr
    ELSE IF ~doc.channel.present THEN EventErr
    ELSE IF doc.data.shape = "absent" THEN EventErr
    ELSE LET c == VisitStr(doc.channel.text)
             d == DeserializeEventData(doc.data)
         IN  IF c.ok /\ d.ok
             THEN EventOk(doc.event, [kind |-> c.kind, pair |-> c.pair], d.variant)
             ELSE EventErr

(***************************************************************************)
(* REST calls (lib.rs: Bitstamp::call_web_api_raw; error.rs)               *)
(***************************************************************************)
REST_HOST_PREFIX == "www.bitstamp.net/api/v2"

\* format!("{}/{}", prefix, rest_method)
Url(rest_method) == REST_HOST_PREFIX \o "/" \o rest_method

\* format!("https://{}", url)
Uri(url) == "https://" \o url

\* format!("BITSTAMP {}", self.key)
AuthValue(key) == "BITSTAMP " \o key

ContentType == "application/x-www-form-urlencoded"

\* chrono's nanosecond() / 1000000: the milliseconds within the second
NanosPerMilli == 1000000

\* format!("{}{}", now.timestamp(), now.nanosecond() / 1000000)
Timestamp(now) == ToString(now.secs) \o ToString(now.nanos \div NanosPerMilli)

SomeBody(offset) == [tag |-> "Some", offset |-> offset]
NoBody == [tag |-> "None", offset |-> ""]

\* serde_json::to_string of types::Offset (offsets here need no escaping),
\* and the empty string for no body
Payload(body) ==
    IF body.tag = "Some" THEN "{\"offset\":\"" \o body.offset \o "\"}" ELSE ""

\* the canonical message with the timestamp put before the nonce
Message_TimestampFirst(auth, url, content_type, nonce, timestamp, payload) ==
    auth \o "POST" \o url \o content_type \o timestamp \o nonce \o "v2" \o payload

\* format!("{}POST{}{}{}{}v2{}", auth, url, content_type, nonce, timestamp, payload)
Message(auth, url, content_type, nonce, timestamp, payload) ==
    auth \o "POST" \o url \o content_type \o nonce \o timestamp \o "v2" \o payload

\* hex::encode of HMAC-SHA256 keyed by the secret over the message: a value
\* that determines both
Signature(secret, message) == <<"hmac-sha256-hex", secret, message>>

AuthHeaderNames ==
    {"X-Auth", "X-Auth-Signature", "X-Auth-Nonce", "X-Auth-Timestamp", "X-Auth-Version",
     "Content-Type"}

\* the headers sent with a content type other than the one that was signed
PostHeaders_OtherContentType(auth, signature, nonce, timestamp, content_type) ==
    [h \in AuthHeaderNames |->
        CASE h = "X-Auth" -> auth
          [] h = "X-Auth-Signature" -> signature
          [] h = "X-Auth-Nonce" -> nonce
          [] h = "X-Auth-Timestamp" -> timestamp
          [] h = "X-Auth-Version" -> "v2"
          [] h = "Content-Type" -> "application/json"]

\* the six builder.header(..) calls of the POST branch
PostHeaders(auth, signature, nonce, timestamp, content_type) ==
    [h \in AuthHeaderNames |->
        CASE h = "X-Auth" -> auth
          [] h = "X-Auth-Signature" -> signature
          [] h = "X-Auth-Nonce" -> nonce
          [] h = "X-Auth-Timestamp" -> timestamp
          [] h = "X-Auth-Version" -> "v2"
          [] h = "Content-Type" -> content_type]

NoHeaders == [h \in {} |-> ""]

\* the request call_web_api_raw builds, given the nonce and the clock reading
\* it draws when the method is POST
BuildRequest(key, secret, http_method, rest_method, body, nonce, now) ==
    LET url == Url(rest_method) IN
    IF http_method = "POST"
    THEN LET auth == AuthValue(key)
             content_type == ContentType
             timestamp == Timestamp(now)
             payload == Payload(body)
             message == Message(auth, url, content_type, nonce, timestamp, payload)
             signature == Signature(secret, message)
         IN  [method |-> http_method, uri |-> Uri(url),
              headers |-> PostHeaders(auth, signature, nonce, timestamp, content_type),
              body |-> payload]
    ELSE [method |-> http_method, uri |-> Uri(url), headers |-> NoHeaders, body |-> ""]

\* StatusCode::is_success
IsSuccess(status) == 200 <= status /\ status <= 299

ErrKeys == {"status", "reason", "code", "error"}

\* the value under a key of a JSON object: none, a string, or something else
Absent == [kind |-> "absent", val |-> ""]
NotAString == [kind |-> "other", val |-> ""]
Str(v) == [kind |-> "string", val |-> v]

\* a response body: a JSON object, given by its values under ErrKeys, or a
\* text that is no JSON object
BodyObject(f) == [shape |-> "object", f |-> f]
BodyOther == [shape |-> "other", f |-> [k \in ErrKeys |-> Absent]]

HasStrings(body, keys) ==
    /\ body.shape = "object"
    /\ \A k \in keys : body.f[k].kind = "string"

\* serde_json::from_str::<types::V2Error>: three required string fields,
\* other keys ignored
ParsesV2(body) == HasStrings(body, {"status", "reason", "code"})

\* serde_json::from_str::<types::V1Error>
ParsesV1(body) == HasStrings(body, {"error"})

\* error.rs: the constructors of Error
ErrorOf(kind, status, text, code, source) ==
    [kind |-> kind, status |-> status, text |-> text, code |-> code, source |-> source]
text_error_with_inner(message, e) == ErrorOf("Text", 0, message, "", e)
status_code(status) == ErrorOf("Status", status, "", "", "none")
v1_error(status, error) == ErrorOf("ErrorV1", status, error, "", "none")
v2_error(status, error, error_code) == ErrorOf("ErrorV2", status, error, error_code, "none")

\* Error::status
ErrorStatus(e) ==
    IF e.kind \in {"Status", "ErrorV1", "ErrorV2"}
    THEN [present |-> TRUE, code |-> e.status]
    ELSE [present |-> FALSE, code |-> 0]

RawOk(reply) == [ok |-> TRUE, reply |-> reply, error |-> ErrorOf("none", 0, "", "", "none")]
RawErr(e) == [ok |-> FALSE, reply |-> BodyOther, error |-> e]

\* the classification with the v1 envelope tried first
Classify_V1First(status, reply) ==
    IF ~IsSuccess(status)
    THEN IF ParsesV1(reply) THEN RawErr(v1_error(status, reply.f["error"].val))
         ELSE IF ParsesV2(reply)
         THEN RawErr(v2_error(status, reply.f["reason"].val, reply.f["code"].val))
         ELSE RawErr(status_code(status))
    ELSE RawOk(reply)

\* call_web_api_raw on a response read to its end
Classify(status, reply) ==
    IF ~IsSuccess(status)
    THEN IF ParsesV2(reply)
         THEN RawErr(v2_error(status, reply.f["reason"].val, reply.f["code"].val))
         ELSE IF ParsesV1(reply) THEN RawErr(v1_error(status, reply.f["error"].val))
         ELSE RawErr(status_code(status))
    ELSE RawOk(reply)

(***************************************************************************)
(* The event stream (lib.rs: BitstampEventStream)                          *)
(*                                                                         *)
(* What ws_stream.next() yields is an item: a frame (Some(Ok(msg))), a     *)
(* transport error (Some(Err(e))), or, once the source has ended, None.    *)
(* Time is counted in seconds.                                             *)
(***************************************************************************)
\* Duration::from_secs(20)
StreamTimeoutSecs == 20

DataFrames == {"Text", "Binary"}
ControlFrames == {"Ping", "Pong", "Close"}

\* a Message: its kind, for a binary one whether the bytes are UTF-8, and
\* for a data frame the JSON text it carries
Frame(kind, utf8, doc) == [kind |-> kind, utf8 |-> utf8, doc |-> doc]
Control(kind) == Frame(kind, TRUE, Malformed)
\* Some(Err(e))
ErrorItem == Frame("Error", TRUE, Malformed)
NoFrame == Frame("none", TRUE, Malformed)

HSome(event) == [tag |-> "Some", event |-> event, err |-> ""]
HNone == [tag |-> "None", event |-> EventErr, err |-> ""]
HErr(e) == [tag |-> "Err", event |-> EventErr, err |-> e]

\* every control frame written as a subscription
EventEventName_AlwaysSubscribe(event) == "bts:subscribe"

\* the serde names under which EventEvent writes the two control kinds
EventEventName(event) ==
    CASE event = "BtsSubscribe" -> "bts:subscribe"
      [] event = "BtsUnsubscribe" -> "bts:unsubscribe"

\* serde_json::to_string of OutEvent { event, data: OutEventData { channel } }
OutEvent(event, channel) ==
    [event |-> EventEventName(event), data |-> [channel |-> SerializeChannel(channel)]]

\* a text that does not decode passed over like a control frame
HandleJson_DropOnFailure(doc) ==
    LET event == DeserializeEvent(doc) IN
    IF event.ok THEN HSome(event) ELSE HNone

\* serde_json::from_str on the text of a data frame, as handle_message uses it
HandleJson(doc) ==
    LET event == DeserializeEvent(doc) IN
    IF event.ok THEN HSome(event) ELSE HErr("unable to deserialize")

\* handle_message answering a ping as if it were an event
HandleMessage_PingAsEvent(msg) ==
    CASE msg.kind = "Binary" ->
            IF msg.utf8 THEN HandleJson(msg.doc) ELSE HErr("UTF-8 decode failed")
      [] msg.kind = "Text" -> HandleJson(msg.doc)
      [] msg.kind = "Ping" -> HSome(EventErr)
      [] msg.kind = "Close" -> HNone
      [] msg.kind = "Pong" -> HNone

\* BitstampEventStream::handle_message
HandleMessage(msg) ==
    CASE msg.kind = "Binary" ->
            IF msg.utf8 THEN HandleJson(msg.doc) ELSE HErr("UTF-8 decode failed")
      [] msg.kind = "Text" -> HandleJson(msg.doc)
      [] msg.kind = "Ping" -> HNone
      [] msg.kind = "Close" -> HNone
      [] msg.kind = "Pong" -> HNone

\* the item after the one that has waited longest
Polled_SkipOne(queue) == IF Len(queue) > 1 THEN queue[2] ELSE queue[1]

\* ws_stream.next(): the item that has waited longest
Polled(queue) == Head(queue)

NoResult == [tag |-> "none", event |-> EventErr, err |-> ""]
ROk(event) == [tag |-> "Ok", event |-> event, err |-> ""]
RErr(e) == [tag |-> "Err", event |-> EventErr, err |-> e]

\* format!("no activity for at least {:?}", self.timeout)
TimeoutMessage(t) == "no activity for at least " \o ToString(t) \o "s"

\* the wait going on against the deadline it already had
Rearm_KeepDeadline(e) == e

\* each turn of the loop makes a new tokio::time::timeout(self.timeout, next)
Rearm(e) == 0

(***************************************************************************)
(* Each part at rest, while another one runs                               *)
(***************************************************************************)
CodecIdle ==
    /\ codecIn = None
    /\ codecWire = <<>>
    /\ codecOut = ChannelErr("none")
    /\ codecPc = "off"

DecIdle ==
    /\ decIn = Malformed
    /\ decOut = EventErr
    /\ decPc = "off"

RestIdle ==
    /\ restCall = None
    /\ restDraw = None
    /\ restReq = None
    /\ restResp = None
    /\ restResult = None
    /\ restPc = "off"
    /\ restFailure = "none"

StreamIdle ==
    /\ timeout = 0
    /\ inbound = <<>>
    /\ sock = "off"
    /\ pc = "off"
    /\ elapsed = 0
    /\ result = None
    /\ subCalls = <<>>
    /\ outbound = <<>>
    /\ lastFrame = None
    /\ silence = 0
    /\ absorbed = FALSE
    /\ sawEnd = FALSE
    /\ terminated = FALSE
    /\ arrived = <<>>
    /\ consumed = <<>>
    /\ callStart = 0
    /\ events = <<>>

(***************************************************************************)
(* The codec and the decoder run on their inputs                           *)
(***************************************************************************)
MaxTokens == 4

\* pieces of which the wire strings handed to the decoder are made
Tokens ==
    {<<>>,
     <<"l", "i", "v", "e">>,
     <<"t", "r", "a", "d", "e", "s">>,
     <<"o", "r", "d", "e", "r", "s">>,
     <<"o", "r", "d", "e", "r">>,
     <<"d", "i", "f", "f">>,
     <<"b", "o", "o", "k">>,
     <<"d", "e", "t", "a", "i", "l">>,
     <<"b", "t", "c", "u", "s", "d">>,
     <<"E", "t", "h", "B", "T", "C">>,
     <<"x", "y", "z">>}

NotAChannelXyz ==
    <<"n", "o", "t", "_", "a", "_", "c", "h", "a", "n", "n", "e", "l", "_", "x", "y", "z">>

\* a channel to serialize and read back, or a wire string to read: up to
\* MaxTokens tokens joined with "_"
CodecInit ==
    /\ codecOut = ChannelErr("none")
    /\ \/ /\ codecIn \in EventChannel
          /\ codecWire = <<>>
          /\ codecPc = "channel"
       \/ /\ codecIn = None
          /\ \/ \E n \in 0..MaxTokens : \E ts \in [1..n -> Tokens] : codecWire = Join(ts)
             \/ codecWire = NotAChannelXyz
          /\ codecPc = "wire"

\* impl Serialize for EventChannel
Serialize ==
    /\ codecPc = "channel"
    /\ codecWire' = SerializeChannel(codecIn)
    /\ codecPc' = "wire"
    /\ UNCHANGED <<codecIn, codecOut>>
    /\ UNCHANGED <<decVars, restVars, streamVars>>

\* impl Deserialize for EventChannel
Deserialize ==
    /\ codecPc = "wire"
    /\ codecOut' = VisitStr(codecWire)
    /\ codecPc' = "done"
    /\ UNCHANGED <<codecIn, codecWire>>
    /\ UNCHANGED <<decVars, restVars, streamVars>>

TradesBtcusd == SerializeChannel([kind |-> "LiveTrades", pair |-> "Btcusd"])

\* a text whose data value is an object with any set of keys, at most one of
\* them ill-typed, or is no object
DecInit ==
    /\ \/ \E P \in SUBSET DataKeys :
            \E B \in {{}} \cup {{f} : f \in P} :
              decIn = Doc("trade", ChannelText(TradesBtcusd), DataObject(P, B))
       \/ decIn = Doc("trade", ChannelText(TradesBtcusd), DataScalar)
    /\ decOut = EventErr
    /\ decPc = "text"

\* serde_json::from_str::<Event> on a text
DecodeEvent ==
    /\ decPc = "text"
    /\ decOut' = DeserializeEvent(decIn)
    /\ decPc' = "done"
    /\ UNCHANGED decIn
    /\ UNCHANGED <<codecVars, restVars, streamVars>>

Keys == {"k", "pk7"}
Secrets == {"s"}
Nonces == {"n", "9b2e"}
ClockReadings == [secs : {1, 1600000000}, nanos : {0, 5000000, 50000000, 999999999}]
Statuses == {200, 204, 302, 400, 403, 500}
TransportErrors == {"connection refused", "tls handshake failed"}
BodyErrors == {"connection reset while reading the body"}

\* the calls made of call_web_api_raw: api_get passes GET and no body,
\* api_post passes POST and a body; rest_api also admits POST with no body
RestCalls ==
    [key : Keys, secret : Secrets, http_method : {"GET"},
     rest_method : {"ticker/btcusd/", "eur_usd/"}, body : {NoBody}]
        \cup [key : Keys, secret : Secrets, http_method : {"POST"},
              rest_method : {"balance/"}, body : {SomeBody("1"), SomeBody("25"), NoBody}]

RestInit ==
    /\ restCall \in RestCalls
    /\ restDraw = None
    /\ restReq = None
    /\ restResp = None
    /\ restResult = None
    /\ restPc = "call"
    /\ restFailure = "none"

\* call_web_api_raw up to client.request(req): the request is built, with a
\* fresh nonce and the clock read when the method is POST
SendRequest ==
    /\ restPc = "call"
    /\ IF restCall.http_method = "POST"
       THEN \E nonce \in Nonces, now \in ClockReadings :
              /\ restDraw' = [nonce |-> nonce, now |-> now]
              /\ restReq' = BuildRequest(restCall.key, restCall.secret,
                                restCall.http_method, restCall.rest_method,
                                restCall.body, nonce, now)
       ELSE /\ restDraw' = None
            /\ restReq' = BuildRequest(restCall.key, restCall.secret,
                              restCall.http_method, restCall.rest_method,
                              restCall.body, "", [secs |-> 0, nanos |-> 0])
    /\ restPc' = "sent"
    /\ UNCHANGED <<restCall, restResp, restResult, restFailure>>
    /\ UNCHANGED <<codecVars, decVars, streamVars>>

\* client.request(req) fails: Err(text_error_with_inner(..))
RequestFails ==
    /\ restPc = "sent"
    /\ \E e \in TransportErrors :
         /\ restResult' = RawErr(text_error_with_inner("request failed: " \o e, e))
         /\ restFailure' = e
    /\ restPc' = "done"
    /\ UNCHANGED <<restCall, restDraw, restReq, restResp>>
    /\ UNCHANGED <<codecVars, decVars, streamVars>>

\* client.request(req) answers with a status and a body
Respond ==
    /\ restPc = "sent"
    /\ \E status \in Statuses :
         \/ \E f \in [ErrKeys -> {Absent, NotAString, Str("a"), Str("b")}] :
              restResp' = [status |-> status, body |-> BodyObject(f)]
         \/ restResp' = [status |-> status, body |-> BodyOther]
    /\ restPc' = "responded"
    /\ UNCHANGED <<restCall, restDraw, restReq, restResult, restFailure>>
    /\ UNCHANGED <<codecVars, decVars, streamVars>>

\* the body is read to its end and the response classified
ReadAndClassify ==
    /\ restPc = "responded"
    /\ restResult' = Classify(restResp.status, restResp.body)
    /\ restPc' = "done"
    /\ UNCHANGED <<restCall, restDraw, restReq, restResp, restFailure>>
    /\ UNCHANGED <<codecVars, decVars, streamVars>>

\* resp.body_mut().data() yields Some(Err(..)): chunk.unwrap() panics, and the
\* call ends without a value for the caller
ReadFails ==
    /\ restPc = "responded"
    /\ \E e \in BodyErrors : restFailure' = e
    /\ restPc' = "panicked"
    /\ UNCHANGED <<restCall, restDraw, restReq, restResp, restResult>>
    /\ UNCHANGED <<codecVars, decVars, streamVars>>

RestNext == SendRequest \/ RequestFails \/ Respond \/ ReadAndClassify \/ ReadFails
InitRest == RestInit /\ CodecIdle /\ DecIdle /\ StreamIdle
SpecRest == InitRest /\ [][RestNext]_vars

CodecNext == Serialize \/ Deserialize
InitCodec == CodecInit /\ DecIdle /\ RestIdle /\ StreamIdle
SpecCodec == InitCodec /\ [][CodecNext]_vars

DecNext == DecodeEvent
InitDecode == DecInit /\ CodecIdle /\ RestIdle /\ StreamIdle
SpecDecode == InitDecode /\ [][DecNext]_vars

(***************************************************************************)
(* The event stream runs                                                   *)
(***************************************************************************)
MaxInbound == 2

\* the subscribe and unsubscribe calls made on one stream
MaxCalls == 2

\* the frames and errors one stream receives in all
MaxArrivals == 2

\* the seconds by which the clock is seen to advance
TickSecs == 5

Min(a, b) == IF a <= b THEN a ELSE b

BookBtceur == SerializeChannel([kind |-> "DiffOrderBook", pair |-> "Btceur"])

\* the channels the caller asks for
CallChannels ==
    {[kind |-> "LiveTrades", pair |-> "Btcusd"], [kind |-> "DiffOrderBook", pair |-> "Btceur"]}

\* the frames and errors the socket delivers
Items ==
    {Frame("Text", TRUE, Doc("trade", ChannelText(TradesBtcusd), DataObject(TradeFields, {}))),
     Frame("Text", TRUE, Malformed),
     Frame("Text", TRUE, Doc("bts:subscription_succeeded", ChannelText(TradesBtcusd),
                             DataObject({}, {}))),
     Frame("Text", TRUE, Doc("data", ChannelText(NotAChannelXyz), DataObject({}, {}))),
     Frame("Binary", TRUE, Doc("data", ChannelText(BookBtceur), DataObject(OrderBookFields, {}))),
     Frame("Binary", FALSE, Malformed),
     Control("Ping"), Control("Pong"), Control("Close"),
     ErrorItem}

\* Bitstamp::event_stream: a connected stream with its timeout
StreamInit ==
    /\ timeout = StreamTimeoutSecs
    /\ inbound = <<>>
    /\ sock = "open"
    /\ pc = "idle"
    /\ elapsed = 0
    /\ result = NoResult
    /\ subCalls = <<>>
    /\ outbound = <<>>
    /\ lastFrame = NoFrame
    /\ silence = 0
    /\ absorbed = FALSE
    /\ sawEnd = FALSE
    /\ terminated = FALSE
    /\ arrived = <<>>
    /\ consumed = <<>>
    /\ callStart = 0
    /\ events = <<>>

\* the socket receives a frame, or fails, while the source is open
Arrive ==
    /\ sock = "open"
    /\ Len(inbound) < MaxInbound
    /\ Len(arrived) < MaxArrivals
    /\ \E item \in Items :
         /\ inbound' = Append(inbound, item)
         /\ arrived' = Append(arrived, item)
    /\ UNCHANGED <<timeout, sock, pc, elapsed, result, lastFrame, silence, absorbed,
                   sawEnd, terminated, consumed, callStart, events>>
    /\ UNCHANGED <<codecVars, decVars, restVars, subCalls, outbound>>

\* the connection is gone: what is queued is still delivered, then None
SourceEnds ==
    /\ sock = "open"
    /\ sock' = "ended"
    /\ UNCHANGED <<timeout, inbound, pc, elapsed, result, lastFrame, silence, absorbed,
                   sawEnd, terminated>>
    /\ UNCHANGED <<codecVars, decVars, restVars, subCalls, outbound, arrived, consumed,
                   callStart, events>>

\* the caller calls next(): the loop is entered and the first wait armed
CallNext ==
    /\ pc = "idle"
    /\ pc' = "waiting"
    /\ elapsed' = 0
    /\ result' = NoResult
    /\ lastFrame' = NoFrame
    /\ silence' = 0
    /\ absorbed' = FALSE
    /\ sawEnd' = FALSE
    /\ callStart' = Len(consumed)
    /\ UNCHANGED <<timeout, inbound, sock, terminated>>
    /\ UNCHANGED <<codecVars, decVars, restVars, subCalls, outbound, arrived, consumed, events>>

\* time passes, up to the deadline of the wait, while the call waits and
\* nothing is there to take
Tick ==
    /\ pc = "waiting"
    /\ inbound = <<>>
    /\ sock = "open"
    /\ elapsed < timeout
    /\ elapsed' = Min(elapsed + TickSecs, timeout)
    /\ silence' = silence + (elapsed' - elapsed)
    /\ UNCHANGED <<timeout, inbound, sock, pc, result, lastFrame, absorbed, sawEnd,
                   terminated>>
    /\ UNCHANGED <<codecVars, decVars, restVars, subCalls, outbound, arrived, consumed,
                   callStart, events>>

\* next(): the wait runs into its deadline, Err(_) of the timeout
TimedOut ==
    /\ pc = "waiting"
    /\ inbound = <<>>
    /\ sock = "open"
    /\ elapsed >= timeout
    /\ result' = RErr(TimeoutMessage(timeout))
    /\ pc' = "idle"
    /\ terminated' = TRUE
    /\ UNCHANGED <<timeout, inbound, sock, elapsed, lastFrame, silence, absorbed, sawEnd>>
    /\ UNCHANGED <<codecVars, decVars, restVars, subCalls, outbound, arrived, consumed,
                   callStart, events>>

\* next(): the wait yields Some(item): a transport error is returned, a frame
\* goes through handle_message and is returned, fails the call, or is passed
\* over with another turn of the loop. Nothing is delivered after a close
\* frame or a transport error: the source ends with it.
TakeItem ==
    /\ pc = "waiting"
    /\ inbound # <<>>
    /\ LET item == Polled(inbound)
           handled == HandleMessage(item)
       IN  /\ lastFrame' = item
           /\ consumed' = Append(consumed, item)
           /\ events' = IF item.kind # "Error" /\ handled.tag = "Some"
                        THEN Append(events, handled.event)
                        ELSE events
           /\ silence' = 0
           /\ IF item.kind \in {"Close", "Error"}
              THEN inbound' = <<>> /\ sock' = "ended"
              ELSE inbound' = Tail(inbound) /\ sock' = sock
           /\ terminated' = (terminated \/ item.kind \in {"Close", "Error"})
           /\ absorbed' = (absorbed \/ item.kind \in ControlFrames)
           /\ IF item.kind = "Error"
              THEN /\ result' = RErr("transport error")
                   /\ pc' = "idle"
                   /\ elapsed' = elapsed
              ELSE CASE handled.tag = "Some" ->
                          /\ result' = ROk(handled.event)
                          /\ pc' = "idle"
                          /\ elapsed' = elapsed
                     [] handled.tag = "Err" ->
                          /\ result' = RErr(handled.err)
                          /\ pc' = "idle"
                          /\ elapsed' = elapsed
                     [] handled.tag = "None" ->
                          /\ result' = result
                          /\ pc' = "waiting"
                          /\ elapsed' = Rearm(elapsed)
    /\ UNCHANGED <<timeout, sawEnd, callStart>>
    /\ UNCHANGED <<codecVars, decVars, restVars, subCalls, outbound, arrived>>

\* next(): the wait yields None, and the loop goes round (None => continue)
TakeNone ==
    /\ pc = "waiting"
    /\ inbound = <<>>
    /\ sock = "ended"
    /\ sawEnd' = TRUE
    /\ elapsed' = Rearm(elapsed)
    /\ UNCHANGED <<timeout, inbound, sock, pc, result, lastFrame, silence, absorbed,
                   terminated>>
    /\ UNCHANGED <<codecVars, decVars, restVars, subCalls, outbound, arrived, consumed,
                   callStart, events>>

\* BitstampEventStream::subscribe: one text frame is handed to the socket and
\* what send() returns is dropped; the call takes the stream exclusively, so
\* it runs between calls of next()
Subscribe ==
    /\ pc = "idle"
    /\ Len(subCalls) < MaxCalls
    /\ \E channel \in CallChannels :
         /\ subCalls' = Append(subCalls, [call |-> "subscribe", channel |-> channel])
         /\ outbound' = Append(outbound, OutEvent("BtsSubscribe", channel))
    /\ UNCHANGED <<timeout, inbound, sock, pc, elapsed, result, lastFrame, silence, absorbed,
                   sawEnd, terminated, arrived, consumed, callStart, events>>
    /\ UNCHANGED <<codecVars, decVars, restVars>>

\* BitstampEventStream::unsubscribe
Unsubscribe ==
    /\ pc = "idle"
    /\ Len(subCalls) < MaxCalls
    /\ \E channel \in CallChannels :
         /\ subCalls' = Append(subCalls, [call |-> "unsubscribe", channel |-> channel])
         /\ outbound' = Append(outbound, OutEvent("BtsUnsubscribe", channel))
    /\ UNCHANGED <<timeout, inbound, sock, pc, elapsed, result, lastFrame, silence, absorbed,
                   sawEnd, terminated, arrived, consumed, callStart, events>>
    /\ UNCHANGED <<codecVars, decVars, restVars>>

Init == StreamInit /\ CodecIdle /\ DecIdle /\ RestIdle
Next == Arrive \/ SourceEnds \/ CallNext \/ Tick \/ TimedOut \/ TakeItem \/ TakeNone
Spec == Init /\ [][Next]_vars

\* the stream with its subscribe and unsubscribe calls: they take the stream
\* exclusively, so they run between calls of next(), when no wait is armed;
\* the calls of next() here are those that end on a frame taken
InitCalls == StreamInit /\ CodecIdle /\ DecIdle /\ RestIdle
NextCalls ==
    \/ Arrive \/ CallNext \/ TakeItem
    \/ Subscribe \/ Unsubscribe
SpecCalls == InitCalls /\ [][NextCalls]_vars

(***************************************************************************)
(* Properties of the channel codec                                         *)
(***************************************************************************)

\* C7: for every channel kind and every trading pair, reading back the wire
\* string written for the channel gives the same kind with the same pair.
C7_ChannelRoundTrip ==
    (codecPc = "done" /\ codecIn # None) =>
        /\ codecOut.ok
        /\ codecOut.kind = codecIn.kind
        /\ codecOut.pair = codecIn.pair

C7_Witness ==
    /\ codecPc = "done"
    /\ codecIn = [kind |-> "DetailOrderBook", pair |-> "Ethbtc"]
    /\ codecWire = VisitTag("DetailOrderBook") \o <<"_">> \o PairLiteral("Ethbtc")
    /\ codecOut.ok

\* the position of the last "_" of s, 0 when s has none
LastUnderscore(s) ==
    IF \E i \in 1..Len(s) : s[i] = "_"
    THEN CHOOSE i \in 1..Len(s) : s[i] = "_" /\ \A j \in (i + 1)..Len(s) : s[j] # "_"
    ELSE 0

\* C8: the decoder takes what follows the last "_" as the pair, looked up
\* without regard to case, and what precedes it as the kind tag; it returns
\* the channel when both are known and fails otherwise, in particular on a
\* string with no "_" and on "not_a_channel_xyz".
C8_DecodeRejectsUnknown ==
    codecPc = "done" =>
        LET i == LastUnderscore(codecWire)
            suffix == ToLowerCase(SubSeq(codecWire, i + 1, Len(codecWire)))
            prefix == SubSeq(codecWire, 1, i - 1)
            pairs == {p \in CurrencyPairs : PairLiteral(p) = suffix}
            kinds == {k \in ChannelKinds : VisitTag(k) = prefix}
        IN  IF i > 0 /\ pairs # {} /\ kinds # {}
            THEN /\ codecOut.ok
                 /\ codecOut.kind \in kinds
                 /\ codecOut.pair \in pairs
            ELSE /\ ~codecOut.ok
                 /\ codecOut.kind = "none"
                 /\ codecOut.pair = "none"

C8_Witness ==
    /\ codecPc = "done"
    /\ codecWire = NotAChannelXyz
    /\ ~codecOut.ok
    /\ codecOut.err = "Unknown currency pair"

(***************************************************************************)
(* Properties of the event payload decoder                                 *)
(***************************************************************************)

\* C9 as stated: the variant follows from the presence of the marker keys
\* alone: buy_order_id and sell_order_id give a trade, else order_type gives
\* an order, else bids and asks give an order book, else the payload is empty.
C9_VariantByMarkerKeys ==
    (decPc = "done" /\ decIn.data.shape = "object" /\ decIn.data.illTyped = {}) =>
        /\ decOut.ok
        /\ decOut.data =
             IF {"buy_order_id", "sell_order_id"} \subseteq decIn.data.present THEN "Trade"
             ELSE IF "order_type" \in decIn.data.present THEN "Orders"
             ELSE IF {"bids", "asks"} \subseteq decIn.data.present THEN "OrderBook"
             ELSE "Empty"

\* C9, amended: the variant of a data object is the first of trade, order,
\* order book and empty whose whole field set is present with values of the
\* expected types; an object that has only some of the fields of a variant
\* does not decode to it, and one that matches none of the three is empty.
C9_FirstFullyMatchingVariant ==
    (decPc = "done" /\ decIn.data.shape = "object") =>
        LET good == decIn.data.present \ decIn.data.illTyped IN
        /\ decOut.ok
        /\ decOut.data =
             IF TradeFields \subseteq good THEN "Trade"
             ELSE IF OrdersFields \subseteq good THEN "Orders"
             ELSE IF OrderBookFields \subseteq good THEN "OrderBook"
             ELSE "Empty"

C9_Witness ==
    /\ decPc = "done"
    /\ decIn.data = DataObject({"buy_order_id", "sell_order_id"}, {})
    /\ decOut.ok
    /\ decOut.data = "Empty"

(***************************************************************************)
(* Properties of REST calls                                                *)
(***************************************************************************)

\* C4: a non-2xx response whose body is an object with string status, reason
\* and code fails with the v2 error carrying the HTTP status, the reason and
\* the code, also when the body has an error key; otherwise one with a string
\* error fails with the v1 error; otherwise the call fails with the bare
\* status. A non-2xx response is never a success and a 2xx response is never
\* one of these errors.
C4_ErrorClassification ==
    (restPc = "done" /\ restResp # None) =>
        LET st == restResp.status
            b == restResp.body
            isStr(k) == b.shape = "object" /\ b.f[k].kind = "string"
            v2 == isStr("status") /\ isStr("reason") /\ isStr("code")
            v1 == isStr("error")
            e == restResult.error
        IN  IF st >= 200 /\ st < 300
            THEN restResult.ok /\ restResult.reply = b /\ e.kind = "none"
            ELSE /\ ~restResult.ok
                 /\ e.status = st
                 /\ IF v2 THEN /\ e.kind = "ErrorV2"
                               /\ e.text = b.f["reason"].val
                               /\ e.code = b.f["code"].val
                    ELSE IF v1 THEN e.kind = "ErrorV1" /\ e.text = b.f["error"].val
                    ELSE e.kind = "Status" /\ e.text = ""

C4_Witness ==
    /\ restPc = "done"
    /\ restResp # None
    /\ restResp.status = 403
    /\ restResp.body =
         BodyObject([k \in ErrKeys |-> IF k \in {"reason", "error"} THEN Str("b") ELSE Str("a")])
    /\ restResult = RawErr(v2_error(403, "b", "a"))

\* C5: the message signed for a POST call is "BITSTAMP " and the key, POST,
\* host and path without scheme, the content type, the nonce, the timestamp,
\* "v2" and the serialized body (nothing when there is no body), in this order
\* with nothing between them; for key "k", balance/, nonce "n", timestamp "t"
\* and body {"offset":"1"} it is the literal of the specification.
C5_CanonicalMessage ==
    /\ Message(AuthValue("k"), Url("balance/"), ContentType, "n", "t", Payload(SomeBody("1")))
         = "BITSTAMP kPOSTwww.bitstamp.net/api/v2/balance/application/x-www-form-urlencodedntv2{\"offset\":\"1\"}"
    /\ (restPc # "call" /\ restCall.http_method = "POST") =>
         restReq.headers["X-Auth-Signature"] =
            <<"hmac-sha256-hex", restCall.secret,
              "BITSTAMP " \o restCall.key \o "POST" \o "www.bitstamp.net/api/v2/"
                \o restCall.rest_method \o "application/x-www-form-urlencoded"
                \o restDraw.nonce \o Timestamp(restDraw.now) \o "v2"
                \o (IF restCall.body.tag = "Some"
                    THEN "{\"offset\":\"" \o restCall.body.offset \o "\"}"
                    ELSE "")>>

C5_Witness ==
    /\ restPc = "sent"
    /\ restCall.http_method = "POST"
    /\ restCall.body = NoBody
    /\ restDraw = [nonce |-> "n", now |-> [secs |-> 1600000000, nanos |-> 999999999]]
    /\ restReq.headers["X-Auth-Signature"][3] =
         "BITSTAMP kPOSTwww.bitstamp.net/api/v2/balance/application/x-www-form-urlencodedn1600000000999v2"

\* C6: a POST request carries exactly the six headers, its signature is over
\* the message made of the very values it transmits (auth value, content
\* type, nonce, timestamp, version tag, body), and these are the values drawn
\* for the call; a GET request carries no header and an empty body.
C6_SignedValuesAreSent ==
    (restPc # "call") =>
        IF restCall.http_method = "POST"
        THEN LET h == restReq.headers IN
             /\ DOMAIN h = AuthHeaderNames
             /\ restReq.uri = "https://" \o Url(restCall.rest_method)
             /\ h["X-Auth-Signature"] =
                  Signature(restCall.secret,
                      h["X-Auth"] \o "POST" \o Url(restCall.rest_method) \o h["Content-Type"]
                        \o h["X-Auth-Nonce"] \o h["X-Auth-Timestamp"] \o h["X-Auth-Version"]
                        \o restReq.body)
             /\ h["X-Auth"] = "BITSTAMP " \o restCall.key
             /\ h["X-Auth-Nonce"] = restDraw.nonce
             /\ h["X-Auth-Timestamp"] = Timestamp(restDraw.now)
             /\ h["X-Auth-Version"] = "v2"
             /\ h["Content-Type"] = "application/x-www-form-urlencoded"
        ELSE /\ DOMAIN restReq.headers = {}
             /\ restReq.body = ""
             /\ restDraw = None

C6_Witness ==
    /\ restPc = "sent"
    /\ restCall.http_method = "POST"
    /\ restCall.body = SomeBody("25")
    /\ restReq.body = "{\"offset\":\"25\"}"
    /\ restReq.headers["X-Auth-Nonce"] = "9b2e"
    /\ restReq.headers["X-Auth-Signature"][2] = "s"

(***************************************************************************)
(* Properties of the event stream                                          *)
(***************************************************************************)
TimeoutErr == RErr("no activity for at least 20s")

\* C1: on an open stream a call fails with the timeout error only when no
\* frame, control frames included, was taken for the whole timeout (so pings
\* less than the timeout apart never time it out); a call is never still
\* pending after a silence longer than the timeout, and the timeout error
\* ends the call, so it is raised once.
C1_TimeoutRestartsOnEveryFrame ==
    /\ result = TimeoutErr => (pc = "idle" /\ silence >= 20)
    /\ (pc = "waiting" /\ sock = "open") => silence <= 20
    /\ (pc = "waiting" /\ sock = "open" /\ inbound = <<>> /\ silence = 20) => ENABLED TimedOut

C1_Witness ==
    /\ result = TimeoutErr
    /\ lastFrame = Control("Ping")
    /\ silence = 20
    /\ sock = "open"

\* C2 as stated: once a transport error, a timeout or a close frame has
\* occurred on a stream, no later call on it returns an event.
C2_ClosedIsTerminal == terminated => result.tag # "Ok"

\* C3 as stated: a call that has seen the source end, or a transport error,
\* has returned with an error; it is not back waiting.
C3_ClosureIsSurfaced ==
    (sawEnd \/ lastFrame = ErrorItem) => (pc = "idle" /\ result.tag = "Err")

\* C10: what a call returns as Ok is the decoding of the text or binary frame
\* it took last; after a ping, pong or close frame the call has returned
\* nothing and waits again, and can only end on a later timeout.
C10_ControlFramesAbsorbed ==
    /\ result.tag = "Ok" =>
         /\ lastFrame.kind \in DataFrames
         /\ lastFrame.utf8
         /\ result.event.ok
         /\ result.event = DeserializeEvent(lastFrame.doc)
    /\ lastFrame.kind \in ControlFrames =>
         \/ pc = "waiting" /\ result = NoResult
         \/ pc = "idle" /\ result = TimeoutErr

C10_Witness ==
    /\ result.tag = "Ok"
    /\ absorbed
    /\ lastFrame.kind = "Binary"
    /\ result.event.data = "OrderBook"

\* C11: a text or binary frame is read as UTF-8 JSON; when the call takes one
\* that does not decode (bytes that are not UTF-8, malformed JSON, an event
\* kind outside the known ones, a channel that is not recognized) it returns
\* an error: it is not back waiting with the frame dropped, and a data frame
\* that decodes is returned as the event.
C11_DecodeFailureIsReturned ==
    lastFrame.kind \in DataFrames =>
        LET doc == lastFrame.doc
            undecodable ==
                \/ ~lastFrame.utf8
                \/ ~doc.json
                \/ doc.event \notin {"bts:subscribe", "bts:unsubscribe", "trade",
                                     "order_created", "order_changed", "order_deleted", "data"}
                \/ ~doc.channel.present
                \/ ~VisitStr(doc.channel.text).ok
                \/ doc.data.shape # "object"
        IN  /\ pc = "idle"
            /\ IF undecodable
               THEN /\ result.tag = "Err"
                    /\ result.err = IF lastFrame.utf8 THEN "unable to deserialize"
                                    ELSE "UTF-8 decode failed"
               ELSE result.tag = "Ok"

C11_Witness ==
    /\ pc = "idle"
    /\ lastFrame = Frame("Text", TRUE, Doc("bts:subscription_succeeded",
                                           ChannelText(TradesBtcusd), DataObject({}, {})))
    /\ result = RErr("unable to deserialize")
    /\ inbound # <<>>

\* the decimal digits of secs * 1000 + millis for secs >= 1 and millis in
\* 0..999: the digits of secs followed by millis written with three digits
EpochMillisText(secs, millis) ==
    ToString(secs) \o (IF millis < 10 THEN "00" ELSE IF millis < 100 THEN "0" ELSE "")
                   \o ToString(millis)

\* C12: the timestamp of a signed request, in the X-Auth-Timestamp header and
\* in the signed message, is the decimal representation of the signing instant
\* in epoch milliseconds, seconds * 1000 + milliseconds within the second.
C12_TimestampIsEpochMillis ==
    (restPc # "call" /\ restCall.http_method = "POST") =>
        LET now == restDraw.now
            millis == now.nanos \div 1000000
            epochms == EpochMillisText(now.secs, millis)
            h == restReq.headers
        IN  /\ h["X-Auth-Timestamp"] = epochms
            /\ h["X-Auth-Signature"] =
                 Signature(restCall.secret,
                     h["X-Auth"] \o "POST" \o Url(restCall.rest_method) \o h["Content-Type"]
                       \o h["X-Auth-Nonce"] \o epochms \o h["X-Auth-Version"] \o restReq.body)

\* C13: a subscribe or unsubscribe call hands exactly one frame to the
\* socket, {event: "bts:subscribe" | "bts:unsubscribe", data: {channel: wire
\* string of the channel}}, whatever was asked before; it yields no error and
\* leaves the timeout, the pending inbound frames and the rest of the stream's
\* state as they were.
C13_SubscribeIsFireAndForget ==
    [][subCalls' # subCalls =>
         LET asked == subCalls'[Len(subCalls')]
             name == IF asked.call = "subscribe" THEN "bts:subscribe" ELSE "bts:unsubscribe"
         IN  /\ Len(subCalls') = Len(subCalls) + 1
             /\ outbound' = Append(outbound,
                                   [event |-> name,
                                    data |-> [channel |-> SerializeChannel(asked.channel)]])
             /\ timeout' = timeout
             /\ inbound' = inbound
             /\ result' = result
             /\ pc' = "idle"
             /\ <<sock, elapsed, terminated>>' = <<sock, elapsed, terminated>>]_vars

\* subscribed twice to one channel, with a frame pending and a result held
C13_Witness ==
    /\ subCalls = <<[call |-> "subscribe", channel |-> [kind |-> "LiveTrades", pair |-> "Btcusd"]],
                    [call |-> "subscribe", channel |-> [kind |-> "LiveTrades", pair |-> "Btcusd"]]>>
    /\ Len(outbound) = 2
    /\ outbound[1] = outbound[2]
    /\ outbound[2].data.channel = <<"l", "i", "v", "e", "_", "t", "r", "a", "d", "e", "s", "_",
                                    "b", "t", "c", "u", "s", "d">>
    /\ inbound # <<>>
    /\ result.tag = "Ok"
    /\ timeout = 20

\* C14: a REST call that meets a transport failure (the connection refused,
\* the TLS handshake failing, the read of the response body failing) ends
\* with an error for the caller that is the text kind with the cause chained,
\* not a bare-status, v1 or v2 error, and whose status() is absent; status()
\* is present exactly for the errors made from an HTTP response.
C14_TransportFailureIsReturned ==
    /\ restFailure # "none" =>
         /\ restPc = "done"
         /\ ~restResult.ok
         /\ restResult.error.kind = "Text"
         /\ restResult.error.source = restFailure
         /\ ~ErrorStatus(restResult.error).present
    /\ (restPc = "done" /\ ~restResult.ok) =>
         (ErrorStatus(restResult.error).present <=> restResp # None)

\* C15: over the calls made on one stream, the events returned are the
\* decodings of the data frames taken, in the order of arrival: what was taken
\* is the front of what arrived with nothing left out, repeated or moved, and
\* while the stream is open the rest is still pending; the frames a call takes
\* before the one it ends on are control frames, and the one it ends on is the
\* data frame (or transport error) whose decoding or failure it returns.
C15_EventsInArrivalOrder ==
    LET Decodes(f) == f.kind \in DataFrames /\ f.utf8 /\ DeserializeEvent(f.doc).ok
        decoded == SelectSeq(consumed, Decodes)
        ended == \E i \in 1..Len(consumed) : consumed[i].kind \in {"Close", "Error"}
    IN  /\ events = [i \in 1..Len(decoded) |-> DeserializeEvent(decoded[i].doc)]
        /\ Len(consumed) <= Len(arrived)
        /\ consumed = SubSeq(arrived, 1, Len(consumed))
        /\ ~ended => consumed \o inbound = arrived
        /\ callStart <= Len(consumed)
        /\ \A i \in (callStart + 1)..Len(consumed) :
             LET f == consumed[i] IN
             IF i = Len(consumed) /\ pc = "idle" /\ result # TimeoutErr
             THEN /\ f.kind \in DataFrames \cup {"Error"}
                  /\ result.tag = IF Decodes(f) THEN "Ok" ELSE "Err"
                  /\ Decodes(f) => result.event = events[Len(events)]
             ELSE f.kind \in {"Ping", "Pong", "Close"}

\* two calls have returned the trade and then the order book, in the order
\* in which the two frames arrived
C15_Witness ==
    /\ pc = "idle"
    /\ Len(arrived) = 2
    /\ consumed = arrived
    /\ consumed[1].kind = "Text"
    /\ consumed[2].kind = "Binary"
    /\ callStart = 1
    /\ Len(events) = 2
    /\ events[1].data = "Trade"
    /\ events[2].data = "OrderBook"
    /\ result = ROk(events[2])

=============================================================================
